---- MODULE Spec2Model ----
(***************************************************************************)
(* A model of the netaddr library (mogthesprog/go-netaddr): addresses,     *)
(* networks, the boundary reducer newNetworkFromBoundaries, the partition  *)
(* engine IPNetwork.Partition and the range converter IPRangeToCIDRS.      *)
(*                                                                         *)
(* Scaling.  The library works on 4-byte and 16-byte addresses of 8-bit    *)
(* bytes.  TLC's integers are 32 bits wide, so the model keeps the byte    *)
(* structure of the code (big-endian byte strings, big.Int.Bytes without   *)
(* leading zero bytes, the length tests of ValidIPV4 and Version) and      *)
(* shrinks the sizes: a byte has ByteBits bits, an IPv4 address IPv4len     *)
(* bytes and an IPv6 address IPv6len bytes.  A byte keeps more than one    *)
(* bit, so that a prefix can end inside a byte, and IPv6 keeps more than   *)
(* one byte above the IPv4 length, as in the program.                      *)
(***************************************************************************)
EXTENDS Integers, Sequences, FiniteSets, TLC

\* Bits of one byte in the model (8 in the program).
ByteBits == 2

\* Bytes of an IPv4 address in the model (src/ipaddress.go:11 has 4).
IPv4len == 2

\* Bytes of an IPv6 address in the model (src/ipaddress.go:12 has 16).
IPv6len == 4

\* Addresses are drawn from the Window values above and the Window values
\* below each quarter boundary of a family's address space.
Window == 8

\* IPRangeToCIDRS is called at most MaxCalls times on the same address objects.
MaxCalls == 2

\* Increment is called with amounts from -MaxDelta to MaxDelta.
MaxDelta == 2

\* The number of values of one byte.
ByteBase == 2 ^ ByteBits

(***************************************************************************)
(* Version: src/ipaddress.go:20-40, 52-58.  The two singletons are         *)
(* compared by pointer; the records below differ in every field, so record *)
(* equality is pointer equality.  NilVersion stands for the nil pointer    *)
(* that IPAddress.Version returns for another byte length, and for the     *)
(* empty &Version{} of NewIPNetwork.                                       *)
(***************************************************************************)
IPv4 ==
    [number |-> 4, length |-> IPv4len, bitLength |-> IPv4len * ByteBits,
     max |-> 2 ^ (IPv4len * ByteBits) - 1]

IPv6 ==
    [number |-> 6, length |-> IPv6len, bitLength |-> IPv6len * ByteBits,
     max |-> 2 ^ (IPv6len * ByteBits) - 1]

NilVersion == [number |-> 0, length |-> 0, bitLength |-> 0, max |-> 0]

Versions == {IPv4, IPv6}

\* Version.LessThan, src/ipaddress.go:62-64
Version_LessThan(v, other) == v.length < other.length

(***************************************************************************)
(* IPNumber: a big.Int, an unbounded integer.                              *)
(***************************************************************************)
\* big.Int.Exp(x, y, nil): x**y, and 1 when y <= 0.  src/ipaddress.go:355-358
IPNumber_Exp(num, v) == IF v <= 0 THEN 1 ELSE num ^ v

\* big.Int.Lsh, src/ipaddress.go:380-383
IPNumber_Lsh(num, v) == num * 2 ^ v

\* big.Int.Neg, src/ipaddress.go:392-395
IPNumber_Neg(num) == 0 - num

\* big.Int.And on two's complement integers of unbounded width.
\* src/ipaddress.go:368-371
RECURSIVE IPNumber_And(_, _)
IPNumber_And(num, v) ==
    IF num = 0 \/ v = 0 THEN 0
    ELSE IF num = -1 THEN v
    ELSE IF v = -1 THEN num
    ELSE (num % 2) * (v % 2) + 2 * IPNumber_And(num \div 2, v \div 2)

\* big.Int.Bytes: the big-endian bytes of |num|, without leading zero bytes.
RECURSIVE BytesOfNat(_)
BytesOfNat(n) ==
    IF n = 0 THEN << >> ELSE Append(BytesOfNat(n \div ByteBase), n % ByteBase)

IPNumber_Bytes(num) == BytesOfNat(IF num < 0 THEN 0 - num ELSE num)

\* big.Int.SetBytes: the unsigned big-endian value of a byte string.
RECURSIVE SetBytes(_)
SetBytes(b) ==
    IF Len(b) = 0 THEN 0
    ELSE SetBytes(SubSeq(b, 1, Len(b) - 1)) * ByteBase + b[Len(b)]

\* ValidIPV4, src/ipaddress.go:187-205.  i runs over Go's indices 0..len-1.
ValidIPV4(ipBytes) ==
    IF Len(ipBytes) = IPv4len \/ Len(ipBytes) = 0 THEN TRUE
    ELSE IF Len(ipBytes) # IPv6len THEN FALSE
    ELSE ~ \E i \in 0 .. Len(ipBytes) - 1 :
             ipBytes[i + 1] = 0 /\ i <= IPv6len - IPv4len - 1

(***************************************************************************)
(* IPAddress: src/ipaddress.go:47-50, the bytes IP and the version tag.    *)
(***************************************************************************)
\* IPAddress.ToInt, src/ipaddress.go:214-218
ToInt(ip) == SetBytes(ip.IP)

\* IPNumber.ToIPAddress, src/ipaddress.go:227-255.  The loop copies byte
\* len-(i+1) for i = 0, 1, ... until the target or the source is used up.
ToIPAddress(num) ==
    LET bigintBytes == IPNumber_Bytes(num)
        valid == ValidIPV4(bigintBytes)
        n == IF valid THEN IPv4len ELSE IPv6len
        bytes == [k \in 1 .. n |->
                    LET i == n - k
                    IN IF i < Len(bigintBytes)
                          THEN bigintBytes[Len(bigintBytes) - i]
                          ELSE 0]
    IN [IP |-> bytes, version |-> IF valid THEN IPv4 ELSE IPv6]

\* IPAddress.Version, src/ipaddress.go:145-153: by the length of the bytes.
Version(ip) ==
    IF Len(ip.IP) = IPv6len THEN IPv6
    ELSE IF Len(ip.IP) = IPv4len THEN IPv4
    ELSE NilVersion

\* The big-endian bytes of value a on n bytes.
RECURSIVE FixedBytes(_, _)
FixedBytes(a, n) ==
    IF n = 0 THEN << >>
    ELSE Append(FixedBytes(a \div ByteBase, n - 1), a % ByteBase)

\* NewIP, src/ipaddress.go:85-100, on the text of address a of family v: an
\* IPv4 text gives the To4 form, an IPv6 text the To16 form.
NewIP(v, a) == [IP |-> FixedBytes(a, v.length), version |-> v]

\* IPAddress comparisons, src/ipaddress.go:418-464: by integer value.
IPAddress_LessThan(ip, other) == ToInt(ip) < ToInt(other)

IPAddress_GreaterThan(ip, other) == ToInt(ip) > ToInt(other)

IPAddress_Equal(ip, other) == ToInt(ip) = ToInt(other)

\* IPAddress.Increment, src/ipaddress.go:166-179.  ip is the receiver's
\* object before the call; the result holds the object after the call, whether
\* the returned pointer is nil, and the error.
Increment(ip, val) ==
    LET ipNum == ToInt(ip)
        sum == ipNum + val
    IN IF ipNum = 0 THEN [ip |-> ip, isNil |-> FALSE, err |-> "nil"]
       ELSE IF sum >= 0 /\ sum <= Version(ip).max
       THEN [ip |-> [ip EXCEPT !.IP = ToIPAddress(sum).IP],
             isNil |-> FALSE, err |-> "nil"]
       ELSE [ip |-> ip, isNil |-> TRUE, err |-> "ErrorAddressOutOFBounds"]

(***************************************************************************)
(* IPMask: src/ipnetwork.go:85-87, the bytes of a net.IPMask.              *)
(***************************************************************************)
\* net.CIDRMask(ones, bits): ones 1-bits followed by 0-bits, and nil (the
\* empty byte string) unless bits is the width of a family and
\* 0 <= ones <= bits.
CIDRMask(ones, bits) ==
    IF (bits # ByteBits * IPv4len /\ bits # ByteBits * IPv6len)
       \/ ones < 0 \/ ones > bits
    THEN << >>
    ELSE [k \in 1 .. (bits \div ByteBits) |->
            LET n == ones - (k - 1) * ByteBits
            IN IF n >= ByteBits THEN ByteBase - 1
               ELSE IF n <= 0 THEN 0
               ELSE ByteBase - 2 ^ (ByteBits - n)]

\* NewMask, src/ipaddress.go:72-77
NewMask(ones, bits) == CIDRMask(ones, bits)

\* net.IPMask.Size: the number of leading ones and the number of bits, and
\* 0, 0 when the mask is not ones followed by zeros.
MaskSize(m) ==
    LET bits == Len(m) * ByteBits
        v == SetBytes(m)
        fits == {o \in 0 .. bits : v = 2 ^ bits - 2 ^ (bits - o)}
    IN IF fits = {} THEN [ones |-> 0, bits |-> 0]
       ELSE [ones |-> CHOOSE o \in fits : TRUE, bits |-> bits]

\* IPMask.Length, src/ipnetwork.go:339-342
IPMask_Length(m) == IPNumber_Exp(2, MaskSize(m).bits - MaskSize(m).ones)

(***************************************************************************)
(* IPNetwork: src/ipnetwork.go:14-20, start (an IPNumber), version, Mask.  *)
(***************************************************************************)
\* NewIPNetwork keeping the address of the text as it is written, host bits
\* included.
NewIPNetworkUnmasked(v, a, ones) ==
    LET mask == CIDRMask(ones, v.bitLength)
        width == MaskSize(mask).bits
        addr == [IP |-> FixedBytes(a, v.length)]
    IN [start |-> ToInt(addr),
        version |-> IF width = IPv4len * ByteBits THEN IPv4
                    ELSE IF width = IPv6len * ByteBits THEN IPv6
                    ELSE NilVersion,
        Mask |-> mask]

\* NewIPNetwork, src/ipnetwork.go:27-47, on the CIDR text "a/ones" of family
\* v: net.ParseCIDR masks the address and gives a mask of the family's
\* width; the version comes from that width.
NewIPNetwork(v, a, ones) ==
    LET mask == CIDRMask(ones, v.bitLength)
        width == MaskSize(mask).bits
        masked == a - (a % 2 ^ (v.bitLength - ones))
        addr == [IP |-> FixedBytes(masked, v.length)]
    IN [start |-> ToInt(addr),
        version |-> IF width = IPv4len * ByteBits THEN IPv4
                    ELSE IF width = IPv6len * ByteBits THEN IPv6
                    ELSE NilVersion,
        Mask |-> mask]

\* IPNetwork.Length, src/ipnetwork.go:344
IPNetwork_Length(nw) == IPMask_Length(nw.Mask)

\* IPNetwork.First, src/ipnetwork.go:75-77
First(nw) == ToIPAddress(nw.start)

\* IPNetwork.Last, src/ipnetwork.go:78-83
Last(nw) == ToIPAddress(nw.start + IPNetwork_Length(nw) - 1)

\* IPNetwork.PrefixLength, src/ipnetwork.go:253-256
PrefixLength(nw) == MaskSize(nw.Mask).ones

\* newNetworkFromIP, src/ipnetwork.go:259-266
newNetworkFromIP(version, value) ==
    [start |-> ToInt(value), version |-> version,
     Mask |-> CIDRMask(version.bitLength, version.bitLength)]

\* IPMask.Equals and IPMask.LessThan, src/ipnetwork.go:89-99: the masks'
\* bytes as unsigned integers.
IPMask_Equals(m, other) == SetBytes(m) = SetBytes(other)

IPMask_LessThan(m, other) == SetBytes(m) < SetBytes(other)

\* IPNetwork.Equal, src/ipnetwork.go:346-357
IPNetwork_Equal(nw, other) ==
    IF nw.version # other.version THEN FALSE
    ELSE IF ~ IPMask_Equals(nw.Mask, other.Mask) THEN FALSE
    ELSE IF ~ (nw.start = other.start) THEN FALSE
    ELSE TRUE

\* IPNetwork.LessThan comparing the masks before the starts.
IPNetwork_LessThanMaskFirst(nw, other) ==
    IF nw.version # other.version
    THEN Version_LessThan(nw.version, other.version)
    ELSE IF ~ IPMask_Equals(nw.Mask, other.Mask)
    THEN IPMask_LessThan(nw.Mask, other.Mask)
    ELSE IF ~ (nw.start = other.start)
    THEN nw.start < other.start
    ELSE FALSE

\* IPNetwork.LessThan, src/ipnetwork.go:359-370
IPNetwork_LessThan(nw, other) ==
    IF nw.version # other.version
    THEN Version_LessThan(nw.version, other.version)
    ELSE IF ~ (nw.start = other.start)
    THEN nw.start < other.start
    ELSE IF ~ IPMask_Equals(nw.Mask, other.Mask)
    THEN IPMask_LessThan(nw.Mask, other.Mask)
    ELSE FALSE

\* IPNetwork.ContainsAddress, src/ipnetwork.go:329-331
ContainsAddress(nw, addr) ==
    IPAddress_LessThan(First(nw), addr) /\ IPAddress_LessThan(addr, Last(nw))

\* IPNetwork.ContainsSubnetwork, src/ipnetwork.go:333-336
ContainsSubnetwork(nw, other) ==
    /\ IPAddress_LessThan(First(nw), First(other))
    /\ IPAddress_GreaterThan(Last(nw), Last(other))

\* net.IP.To4 on the bytes of an IPv6 address: an IPv4-mapped address has
\* zero bytes above and all-ones bytes just before its IPv4 part (ten zero
\* bytes and ff ff in the program; all but the last of the upper bytes, and
\* the last of them, in the model).
IsMapped(b) ==
    /\ Len(b) = IPv6len
    /\ \A i \in 1 .. IPv6len - IPv4len - 1 : b[i] = 0
    /\ b[IPv6len - IPv4len] = ByteBase - 1

\* net.IP.String, as a text net.ParseCIDR reads back: the dotted text of an
\* IPv4 address for IPv4len bytes and for an IPv4-mapped address, the text
\* of an IPv6 address otherwise.
IPString(b) ==
    IF Len(b) = IPv4len THEN [v |-> IPv4, a |-> SetBytes(b)]
    ELSE IF IsMapped(b)
    THEN [v |-> IPv4,
          a |-> SetBytes(SubSeq(b, IPv6len - IPv4len + 1, IPv6len))]
    ELSE [v |-> IPv6, a |-> SetBytes(b)]

\* IPNetwork.Subnet, src/unnamed/part_002:312-335.  The test of line 314
\* never fails (0 <= thisCidrPrefix holds of every Size), and the quotient
\* of the two powers of line 321 is 2^(newCIDRPrefix - thisCidrPrefix).
\* NewIPNetwork fails on a prefix length the family of the text does not
\* have; results is then nil.
Subnet(nw, newCIDRPrefix) ==
    LET thisCidrPrefix == MaskSize(nw.Mask).ones
        maxNoSubnets == 2 ^ (newCIDRPrefix - thisCidrPrefix)
        text == IPString(First(nw).IP)
    IN IF thisCidrPrefix > newCIDRPrefix
       THEN [results |-> << >>, err |-> "nil"]
       ELSE IF newCIDRPrefix > text.v.bitLength
       THEN [results |-> << >>, err |-> "ParseError"]
       ELSE [results |->
                [k \in 1 .. maxNoSubnets |->
                    LET i == k - 1
                        newSubnet == NewIPNetwork(text.v, text.a, newCIDRPrefix)
                        sL == IPNetwork_Length(newSubnet) * i
                    IN [newSubnet EXCEPT !.start = newSubnet.start + sL]],
             err |-> "nil"]

(***************************************************************************)
(* IPRange: src/iprange.go:5-10, version, first, last, network; ByIPRanges *)
(* is a slice of them.                                                     *)
(***************************************************************************)
\* ByIPRanges.Less without the comparison of the last addresses at lines
\* 45-47.
ByIPRanges_LessSkipsLast(rs, i, j) ==
    LET ith == rs[i]
        jth == rs[j]
    IN IF ith.version # jth.version
       THEN Version_LessThan(ith.version, jth.version)
       ELSE IF ~ IPAddress_Equal(ith.first, jth.first)
       THEN IPAddress_LessThan(ith.first, jth.first)
       ELSE IF ~ IPNetwork_Equal(ith.network, jth.network)
       THEN IPNetwork_LessThan(ith.network, jth.network)
       ELSE FALSE

\* ByIPRanges.Less, src/iprange.go:36-52
ByIPRanges_Less(rs, i, j) ==
    LET ith == rs[i]
        jth == rs[j]
    IN IF ith.version # jth.version
       THEN Version_LessThan(ith.version, jth.version)
       ELSE IF ~ IPAddress_Equal(ith.first, jth.first)
       THEN IPAddress_LessThan(ith.first, jth.first)
       ELSE IF ~ IPAddress_Equal(ith.last, jth.last)
       THEN IPAddress_LessThan(ith.last, jth.last)
       ELSE IF ~ IPNetwork_Equal(ith.network, jth.network)
       THEN IPNetwork_LessThan(ith.network, jth.network)
       ELSE FALSE

\* The loop of newNetworkFromBoundaries widening while the floored number is
\* still at or above the lowest one (>= for the > of line 60).
RECURSIVE SearchOutwardsInclusive(_, _, _, _)
SearchOutwardsInclusive(prefixlen, ipNumber, lowestIPNumber, width) ==
    IF prefixlen > 0 /\ ipNumber >= lowestIPNumber
    THEN SearchOutwardsInclusive(
           prefixlen - 1,
           IPNumber_And(ipNumber,
                        IPNumber_Neg(IPNumber_Lsh(1, width - (prefixlen - 1)))),
           lowestIPNumber, width)
    ELSE [prefixlen |-> prefixlen, ipNumber |-> ipNumber]

\* The loop of newNetworkFromBoundaries clearing one bit less than line 63
\* does: the mask is built from the prefix length before it is decremented.
RECURSIVE SearchOutwardsFloorsLate(_, _, _, _)
SearchOutwardsFloorsLate(prefixlen, ipNumber, lowestIPNumber, width) ==
    IF prefixlen > 0 /\ ipNumber > lowestIPNumber
    THEN SearchOutwardsFloorsLate(
           prefixlen - 1,
           IPNumber_And(ipNumber,
                        IPNumber_Neg(IPNumber_Lsh(1, width - prefixlen))),
           lowestIPNumber, width)
    ELSE [prefixlen |-> prefixlen, ipNumber |-> ipNumber]

\* The loop of newNetworkFromBoundaries, src/ipnetwork.go:60-64: the final
\* prefix length and the floored number.
RECURSIVE SearchOutwards(_, _, _, _)
SearchOutwards(prefixlen, ipNumber, lowestIPNumber, width) ==
    IF prefixlen > 0 /\ ipNumber > lowestIPNumber
    THEN SearchOutwards(
           prefixlen - 1,
           IPNumber_And(ipNumber,
                        IPNumber_Neg(IPNumber_Lsh(1, width - (prefixlen - 1)))),
           lowestIPNumber, width)
    ELSE [prefixlen |-> prefixlen, ipNumber |-> ipNumber]

\* newNetworkFromBoundaries without the comparison of the versions at line
\* 50.
newNetworkFromBoundariesUnchecked(first, last) ==
    LET width == first.version.bitLength
        found == SearchOutwards(width, ToInt(last), ToInt(first), width)
    IN [nw |-> << [start |-> found.ipNumber,
                   version |-> Version(first),
                   Mask |-> NewMask(found.prefixlen, width)] >>,
        err |-> "nil"]

\* newNetworkFromBoundaries refusing a first address above the last one,
\* which the code does not look for.
newNetworkFromBoundariesOrdered(first, last) ==
    IF Version(first) # Version(last)
    THEN [nw |-> << >>, err |-> "VersionMismatch"]
    ELSE IF IPAddress_GreaterThan(first, last)
    THEN [nw |-> << >>, err |-> "OutOfOrder"]
    ELSE LET width == first.version.bitLength
             found == SearchOutwards(width, ToInt(last), ToInt(first), width)
         IN [nw |-> << [start |-> found.ipNumber,
                        version |-> Version(first),
                        Mask |-> NewMask(found.prefixlen, width)] >>,
             err |-> "nil"]

\* newNetworkFromBoundaries, src/ipnetwork.go:49-73.  nw holds the returned
\* network, and is empty when the returned pointer is nil.
newNetworkFromBoundaries(first, last) ==
    IF Version(first) # Version(last)
    THEN [nw |-> << >>, err |-> "VersionMismatch"]
    ELSE LET width == first.version.bitLength
             found == SearchOutwards(width, ToInt(last), ToInt(first), width)
         IN [nw |-> << [start |-> found.ipNumber,
                        version |-> Version(first),
                        Mask |-> NewMask(found.prefixlen, width)] >>,
             err |-> "nil"]

\* reverse leaving the list as the walk collected it.
reverseSkipped(s) == s

\* reverse, src/ipnetwork.go:244-251
reverse(s) == [i \in 1 .. Len(s) |-> s[Len(s) + 1 - i]]

\* The loop of Partition descending into the upper half only when the
\* excluded network starts strictly above its first address (> for the >= of
\* line 209).
RECURSIVE PartitionLoopStrict(_, _, _, _, _, _, _, _)
PartitionLoopStrict(exclude, version, targetModuleWidth, newPrefixLength, iLower, iUpper, left, right) ==
    IF PrefixLength(exclude) < newPrefixLength
    THEN [left |-> left, right |-> right]
    ELSE LET upper == ToInt(First(exclude)) > iUpper
             sibling == [newNetworkFromIP(
                           version,
                           ToIPAddress(IF upper THEN iLower ELSE iUpper))
                         EXCEPT !.Mask =
                           NewMask(newPrefixLength, version.bitLength)]
             matched == IF upper THEN iUpper ELSE iLower
             left2 == IF upper THEN Append(left, sibling) ELSE left
             right2 == IF upper THEN right ELSE Append(right, sibling)
             next == newPrefixLength + 1
         IN IF next > targetModuleWidth
            THEN [left |-> left2, right |-> right2]
            ELSE PartitionLoopStrict(
                   exclude, version, targetModuleWidth, next, matched,
                   matched + IPNumber_Exp(2, targetModuleWidth - next),
                   left2, right2)

\* The loop of Partition leaving as soon as the new prefix length reaches
\* that of the excluded network (<= for the LessThan of line 206).
RECURSIVE PartitionLoopStopsEarly(_, _, _, _, _, _, _, _)
PartitionLoopStopsEarly(exclude, version, targetModuleWidth, newPrefixLength, iLower, iUpper, left, right) ==
    IF PrefixLength(exclude) <= newPrefixLength
    THEN [left |-> left, right |-> right]
    ELSE LET upper == ToInt(First(exclude)) >= iUpper
             sibling == [newNetworkFromIP(
                           version,
                           ToIPAddress(IF upper THEN iLower ELSE iUpper))
                         EXCEPT !.Mask =
                           NewMask(newPrefixLength, version.bitLength)]
             matched == IF upper THEN iUpper ELSE iLower
             left2 == IF upper THEN Append(left, sibling) ELSE left
             right2 == IF upper THEN right ELSE Append(right, sibling)
             next == newPrefixLength + 1
         IN IF next > targetModuleWidth
            THEN [left |-> left2, right |-> right2]
            ELSE PartitionLoopStopsEarly(
                   exclude, version, targetModuleWidth, next, matched,
                   matched + IPNumber_Exp(2, targetModuleWidth - next),
                   left2, right2)

\* The loop of IPNetwork.Partition, src/ipnetwork.go:203-234: left and right
\* as the loop leaves them.
RECURSIVE PartitionLoop(_, _, _, _, _, _, _, _)
PartitionLoop(exclude, version, targetModuleWidth, newPrefixLength, iLower, iUpper, left, right) ==
    IF PrefixLength(exclude) < newPrefixLength
    THEN [left |-> left, right |-> right]
    ELSE LET upper == ToInt(First(exclude)) >= iUpper
             sibling == [newNetworkFromIP(
                           version,
                           ToIPAddress(IF upper THEN iLower ELSE iUpper))
                         EXCEPT !.Mask =
                           NewMask(newPrefixLength, version.bitLength)]
             matched == IF upper THEN iUpper ELSE iLower
             left2 == IF upper THEN Append(left, sibling) ELSE left
             right2 == IF upper THEN right ELSE Append(right, sibling)
             next == newPrefixLength + 1
         IN IF next > targetModuleWidth
            THEN [left |-> left2, right |-> right2]
            ELSE PartitionLoop(
                   exclude, version, targetModuleWidth, next, matched,
                   matched + IPNumber_Exp(2, targetModuleWidth - next),
                   left2, right2)

\* Partition comparing the prefix lengths (line 176) before it looks for a
\* disjoint exclude (lines 158 and 165).
PartitionPrefixFirst(nw, exclude) ==
    IF PrefixLength(nw) >= PrefixLength(exclude)
    THEN [Before |-> << >>, Partition |-> << nw >>, After |-> << >>]
    ELSE IF IPAddress_LessThan(Last(exclude), First(nw))
    THEN [Before |-> << >>, Partition |-> << >>, After |-> << nw >>]
    ELSE IF IPAddress_LessThan(Last(nw), First(exclude))
    THEN [Before |-> << nw >>, Partition |-> << >>, After |-> << >>]
    ELSE LET targetModuleWidth == nw.version.bitLength
             newPrefixLength == PrefixLength(nw) + 1
             targetFirst == ToInt(First(nw))
             loop == PartitionLoop(
                       exclude, exclude.version, targetModuleWidth,
                       newPrefixLength, targetFirst,
                       targetFirst
                         + IPNumber_Exp(2, targetModuleWidth - newPrefixLength),
                       << >>, << >>)
         IN [Before |-> loop.left, Partition |-> << exclude >>,
             After |-> reverse(loop.right)]

\* Partition handing back the exclude network where line 179 hands back the
\* receiver.
PartitionReturnsExclude(nw, exclude) ==
    IF IPAddress_LessThan(Last(exclude), First(nw))
    THEN [Before |-> << >>, Partition |-> << >>, After |-> << nw >>]
    ELSE IF IPAddress_LessThan(Last(nw), First(exclude))
    THEN [Before |-> << nw >>, Partition |-> << >>, After |-> << >>]
    ELSE IF PrefixLength(nw) >= PrefixLength(exclude)
    THEN [Before |-> << >>, Partition |-> << exclude >>, After |-> << >>]
    ELSE LET targetModuleWidth == nw.version.bitLength
             newPrefixLength == PrefixLength(nw) + 1
             targetFirst == ToInt(First(nw))
             loop == PartitionLoop(
                       exclude, exclude.version, targetModuleWidth,
                       newPrefixLength, targetFirst,
                       targetFirst
                         + IPNumber_Exp(2, targetModuleWidth - newPrefixLength),
                       << >>, << >>)
         IN [Before |-> loop.left, Partition |-> << exclude >>,
             After |-> reverse(loop.right)]

\* IPNetwork.Partition, src/ipnetwork.go:154-242.  Partition holds the
\* network of the Partition field, and is empty when that pointer is nil.
Partition(nw, exclude) ==
    IF IPAddress_LessThan(Last(exclude), First(nw))
    THEN [Before |-> << >>, Partition |-> << >>, After |-> << nw >>]
    ELSE IF IPAddress_LessThan(Last(nw), First(exclude))
    THEN [Before |-> << nw >>, Partition |-> << >>, After |-> << >>]
    ELSE IF PrefixLength(nw) >= PrefixLength(exclude)
    THEN [Before |-> << >>, Partition |-> << nw >>, After |-> << >>]
    ELSE LET targetModuleWidth == nw.version.bitLength
             newPrefixLength == PrefixLength(nw) + 1
             targetFirst == ToInt(First(nw))
             loop == PartitionLoop(
                       exclude, exclude.version, targetModuleWidth,
                       newPrefixLength, targetFirst,
                       targetFirst
                         + IPNumber_Exp(2, targetModuleWidth - newPrefixLength),
                       << >>, << >>)
         IN [Before |-> loop.left, Partition |-> << exclude >>,
             After |-> reverse(loop.right)]

\* The second half of IPRangeToCIDRS cutting at end itself, where line 297
\* steps one past it, and keeping the host block of end with the blocks
\* below it.
TrimHighAtEnd(version, e, heap, subnet, cidrs) ==
    IF IPAddress_GreaterThan(Last(subnet), heap[e])
    THEN LET p == Partition(subnet, newNetworkFromIP(version, heap[e]))
         IN [cidrs |-> cidrs \o p.Before \o p.Partition,
             err |-> "nil", heap |-> heap]
    ELSE [cidrs |-> Append(cidrs, subnet), err |-> "nil", heap |-> heap]

\* The second half of IPRangeToCIDRS, src/ipnetwork.go:295-308, entered with
\* the working subnet and the blocks collected so far.  The Increment of
\* line 297 acts on the object end points to; when it returns a nil
\* address, newNetworkFromIP dereferences it at line 301.
TrimHigh(version, e, heap, subnet, cidrs) ==
    IF IPAddress_GreaterThan(Last(subnet), heap[e])
    THEN LET inc == Increment(heap[e], 1)
             heap2 == [heap EXCEPT ![e] = inc.ip]
         IN IF inc.err # "nil" /\ inc.err # "ErrorAddressOutOFBounds"
            THEN [cidrs |-> << >>, err |-> inc.err, heap |-> heap2]
            ELSE IF inc.isNil
            THEN [cidrs |-> << >>, err |-> "panic", heap |-> heap2]
            ELSE [cidrs |-> cidrs \o
                     Partition(subnet,
                               newNetworkFromIP(version, heap2[e])).Before,
                  err |-> "nil", heap |-> heap2]
    ELSE [cidrs |-> Append(cidrs, subnet), err |-> "nil", heap |-> heap]

\* IPRangeToCIDRS, src/ipnetwork.go:268-309.  start and end are pointers: s
\* and e name objects of heap, and the Increment of line 279 acts on the
\* object start points to.  The result holds the returned list, the error
\* and the objects after the call.
IPRangeToCIDRS(version, s, e, heap) ==
    LET made == newNetworkFromBoundaries(heap[s], heap[e])
    IN IF made.err # "nil"
       THEN [cidrs |-> << >>, err |-> made.err, heap |-> heap]
       ELSE LET subnet == made.nw[1]
            IN IF IPAddress_LessThan(First(subnet), heap[s])
               THEN LET inc == Increment(heap[s], -1)
                        heap1 == [heap EXCEPT ![s] = inc.ip]
                        afterPartition ==
                            Partition(subnet,
                                      newNetworkFromIP(version, heap1[s])).After
                        lastCidrIndex == Len(afterPartition)
                    IN IF inc.err # "nil"
                       THEN [cidrs |-> << >>, err |-> inc.err, heap |-> heap1]
                       ELSE IF lastCidrIndex >= 1
                       THEN TrimHigh(version, e, heap1,
                                     afterPartition[lastCidrIndex],
                                     SubSeq(afterPartition, 1,
                                            lastCidrIndex - 1))
                       ELSE TrimHigh(version, e, heap1, subnet, << >>)
               ELSE TrimHigh(version, e, heap, subnet, << >>)

(***************************************************************************)
(* MergeCIDRs: src/ipnetwork.go:103-146 and its documented copy,           *)
(* src/unnamed/part_002:162-205.  The two differ in the bound of the       *)
(* merging loop (i >= 0 in the first, i > 0 in the second), which is the   *)
(* parameter lowest below.  A range holds pointers: first and last name    *)
(* objects of heap, and IPRangeToCIDRS acts on them.                       *)
(***************************************************************************)
\* MinAddress, src/ipaddress.go:404-409, on pointers a1 and a2.
MinAddress(a1, a2, heap) ==
    IF ToInt(heap[a1]) <= ToInt(heap[a2]) THEN a1 ELSE a2

\* The range of lines 109-115 for the k-th network: its First() is object
\* 2k - 1 and its Last() object 2k.
RangesOf(cidrs) ==
    [k \in 1 .. Len(cidrs) |->
        [version |-> cidrs[k].version, first |-> 2 * k - 1, last |-> 2 * k,
         network |-> cidrs[k]]]

HeapOf(cidrs) ==
    [j \in 1 .. 2 * Len(cidrs) |->
        IF j % 2 = 1 THEN First(cidrs[(j + 1) \div 2])
        ELSE Last(cidrs[j \div 2])]

\* sort.Sort(ByIPRanges(ranges)), line 117: the ranges in an order in which
\* no range is Less than one before it.
SortRanges(ranges, heap) ==
    LET n == Len(ranges)
        values == [k \in 1 .. n |->
                     [ranges[k] EXCEPT !.first = heap[ranges[k].first],
                                       !.last = heap[ranges[k].last]]]
        order == CHOOSE f \in [1 .. n -> 1 .. n] :
                    /\ \A i, j \in 1 .. n : i # j => f[i] # f[j]
                    /\ \A i, j \in 1 .. n :
                          i < j => ~ ByIPRanges_Less(values, f[j], f[i])
    IN [k \in 1 .. n |-> ranges[order[k]]]

\* The merging loop, lines 119-131, from Go index i downwards while
\* i >= lowest.  ranges[i - 1] at i = 0 is an index out of range.
RECURSIVE MergeLoop(_, _, _, _)
MergeLoop(ranges, heap, i, lowest) ==
    IF i < lowest THEN [ranges |-> ranges, panic |-> FALSE]
    ELSE IF i - 1 < 0 THEN [ranges |-> ranges, panic |-> TRUE]
    ELSE LET current == ranges[i + 1]
             next == ranges[i]
             merged == [version |-> current.version,
                        first |-> current.last,
                        last |-> MinAddress(next.first, current.first, heap),
                        network |-> [start |-> 0, version |-> NilVersion,
                                     Mask |-> << >>]]
         IN IF /\ current.version = next.version
               /\ ToInt(heap[current.first]) < ToInt(heap[next.last])
            THEN MergeLoop([ranges EXCEPT ![i] = merged], heap, i - 1, lowest)
            ELSE MergeLoop(ranges, heap, i - 1, lowest)

\* The last loop, lines 133-143, from the k-th range on.  value.network is
\* never nil, so every range goes through IPRangeToCIDRS; its error is
\* dropped and its list, nil on an error, appended.
RECURSIVE EmitLoop(_, _, _, _)
EmitLoop(ranges, heap, k, merged) ==
    IF k > Len(ranges) THEN [merged |-> merged, panic |-> FALSE]
    ELSE LET value == ranges[k]
             r == IPRangeToCIDRS(value.version, value.first, value.last, heap)
         IN IF r.err = "panic" THEN [merged |-> merged, panic |-> TRUE]
            ELSE EmitLoop(ranges, r.heap, k + 1, merged \o r.cidrs)

\* MergeCIDRs; lowest is 0 for src/ipnetwork.go:119 and 1 for
\* src/unnamed/part_002:178.  merged is what was collected when the call
\* ended.
MergeCIDRs(cidrs, lowest) ==
    LET heap == HeapOf(cidrs)
        sorted == SortRanges(RangesOf(cidrs), heap)
        loop == MergeLoop(sorted, heap, Len(sorted) - 1, lowest)
    IN IF loop.panic THEN [merged |-> << >>, panic |-> TRUE]
       ELSE EmitLoop(loop.ranges, heap, 1, << >>)

(***************************************************************************)
(* The state: the address objects a caller holds and passes by pointer,    *)
(* the networks it holds, and what the last call returned.                 *)
(***************************************************************************)
VARIABLES
    heap,       \* the address objects o1 and o2
    startRef,   \* the object passed as start (first)
    endRef,     \* the object passed as end (last); the same object when aliased
    version,    \* the version passed to IPRangeToCIDRS
    pre,        \* heap as it was when the last call was made
    calls,      \* calls of IPRangeToCIDRS made on these objects
    op,         \* the last call
    cidrs,      \* the list IPRangeToCIDRS returned
    err,        \* the error the last call returned
    made,       \* the network newNetworkFromBoundaries returned, if any
    target,     \* the receiver of Partition
    exclude,    \* the argument of Partition
    part,       \* the Partition returned, if any
    textA,      \* the CIDR text the first network is made from
    textB,      \* the CIDR text the second network is made from
    ranges,     \* the IPRanges of a ByIPRanges collection
    ret         \* what the last call of another operation returned

vars ==
    << heap, startRef, endRef, version, pre, calls, op, cidrs, err, made,
       target, exclude, part, textA, textB, ranges, ret >>

\* The values of the addresses of family v that the model draws.
Addrs(v) ==
    LET quarter == 2 ^ (v.bitLength - 2)
    IN {a \in 0 .. v.max :
          a % quarter < Window \/ a % quarter >= quarter - Window}

\* The address objects NewIP makes.
Objects == {NewIP(v, a) : <<v, a>> \in UNION {{v} \X Addrs(v) : v \in Versions}}

\* The networks NewIPNetwork makes.
Networks ==
    UNION {{NewIPNetwork(v, a, ones) : a \in Addrs(v), ones \in 0 .. v.bitLength}
           : v \in Versions}

\* The addresses CIDR texts are written with: the first two and the last of
\* each quarter of a family's address space.
TextAddrs(v) ==
    LET quarter == 2 ^ (v.bitLength - 2)
    IN {a \in 0 .. v.max : a % quarter \in {0, 1, quarter - 1}}

\* The CIDR texts "a/ones" that net.ParseCIDR accepts, by family.
Texts ==
    UNION {[v : {v}, a : TextAddrs(v), ones : 0 .. v.bitLength]
           : v \in Versions}

\* The networks NewIPNetwork makes of them.
TextNetworks == {NewIPNetwork(t.v, t.a, t.ones) : t \in Texts}

NoNetwork == [start |-> 0, version |-> NilVersion, Mask |-> << >>]

NoPartition == [Before |-> << >>, Partition |-> << >>, After |-> << >>]

NoText == [v |-> NilVersion, a |-> 0, ones |-> 0]

\* A caller with two address objects, or with one object it passes twice.
InitAddresses ==
    /\ heap \in [{"o1", "o2"} -> Objects]
    /\ startRef = "o1"
    /\ endRef \in {"o1", "o2"}
    /\ endRef = "o1" => heap["o2"] = heap["o1"]
    /\ version = heap["o1"].version
    /\ pre = heap
    /\ calls = 0
    /\ op = "none"
    /\ cidrs = << >>
    /\ err = "nil"
    /\ made = << >>
    /\ target = NoNetwork
    /\ exclude = NoNetwork
    /\ part = << >>
    /\ textA = NoText
    /\ textB = NoText
    /\ ranges = << >>
    /\ ret = << >>

\* A caller with two networks.
InitNetworks ==
    /\ heap = [o \in {"o1", "o2"} |-> NewIP(IPv4, 0)]
    /\ startRef = "o1"
    /\ endRef = "o2"
    /\ version = IPv4
    /\ pre = heap
    /\ calls = 0
    /\ op = "none"
    /\ cidrs = << >>
    /\ err = "nil"
    /\ made = << >>
    /\ target \in Networks
    /\ exclude \in Networks
    /\ part = << >>
    /\ textA = NoText
    /\ textB = NoText
    /\ ranges = << >>
    /\ ret = << >>

\* The IPRanges of one family a collection is filled with: the addresses
\* lowest, next and highest of the family, and networks at both ends of it.
IPRanges ==
    UNION {[version : {v},
            first : {NewIP(v, a) : a \in {0, 1, v.max}},
            last : {NewIP(v, a) : a \in {0, 1, v.max}},
            network : {NewIPNetwork(v, a, ones) :
                         a \in {0, v.max}, ones \in {0, 1, v.bitLength}}]
           : v \in Versions}

\* A caller with a collection of two ranges.
InitRanges ==
    /\ heap = [o \in {"o1", "o2"} |-> NewIP(IPv4, 0)]
    /\ startRef = "o1"
    /\ endRef = "o2"
    /\ version = IPv4
    /\ pre = heap
    /\ calls = 0
    /\ op = "none"
    /\ cidrs = << >>
    /\ err = "nil"
    /\ made = << >>
    /\ target = NoNetwork
    /\ exclude = NoNetwork
    /\ part = << >>
    /\ textA = NoText
    /\ textB = NoText
    /\ ranges \in {<< r1, r2 >> : r1 \in IPRanges, r2 \in IPRanges}
    /\ ret = << >>

\* A caller with two CIDR texts.
InitTexts ==
    /\ heap = [o \in {"o1", "o2"} |-> NewIP(IPv4, 0)]
    /\ startRef = "o1"
    /\ endRef = "o2"
    /\ version = IPv4
    /\ pre = heap
    /\ calls = 0
    /\ op = "none"
    /\ cidrs = << >>
    /\ err = "nil"
    /\ made = << >>
    /\ target = NoNetwork
    /\ exclude = NoNetwork
    /\ part = << >>
    /\ textA \in Texts
    /\ textB \in Texts
    /\ ranges = << >>
    /\ ret = << >>

\* cidrs, err := IPRangeToCIDRS(version, start, end)
CallIPRangeToCIDRS ==
    /\ calls < MaxCalls
    /\ \E r \in {IPRangeToCIDRS(version, startRef, endRef, heap)} :
          /\ heap' = r.heap
          /\ cidrs' = r.cidrs
          /\ err' = r.err
    /\ pre' = heap
    /\ calls' = calls + 1
    /\ op' = "IPRangeToCIDRS"
    /\ UNCHANGED << startRef, endRef, version, made, target, exclude, part,
                    textA, textB, ranges, ret >>

\* made, err := newNetworkFromBoundaries(first, last)
CallNewNetworkFromBoundaries ==
    /\ op = "none"
    /\ \E r \in {newNetworkFromBoundaries(heap[startRef], heap[endRef])} :
          /\ made' = r.nw
          /\ err' = r.err
    /\ pre' = heap
    /\ op' = "newNetworkFromBoundaries"
    /\ UNCHANGED << heap, startRef, endRef, version, calls, cidrs, target,
                    exclude, part, textA, textB, ranges, ret >>

\* part := target.Partition(exclude)
CallPartition ==
    /\ op = "none"
    /\ target # NoNetwork
    /\ exclude # NoNetwork
    /\ part' = << Partition(target, exclude) >>
    /\ op' = "Partition"
    /\ UNCHANGED << heap, startRef, endRef, version, pre, calls, cidrs, err,
                    made, target, exclude, textA, textB, ranges, ret >>

\* back := start.ToInt().ToIPAddress()
CallToIPAddress ==
    /\ op = "none"
    /\ ret' = << ToIPAddress(ToInt(heap[startRef])) >>
    /\ pre' = heap
    /\ op' = "ToIPAddress"
    /\ UNCHANGED << heap, startRef, endRef, version, calls, cidrs, err, made,
                    target, exclude, part, textA, textB, ranges >>

\* result, err := start.Increment(NewIPNumber(n)); ret holds n and whether
\* result is nil, and a result that is not nil is the object of start.
CallIncrement ==
    /\ op = "none"
    /\ \E n \in (0 - MaxDelta) .. MaxDelta :
          \E r \in {Increment(heap[startRef], n)} :
             /\ heap' = [heap EXCEPT ![startRef] = r.ip]
             /\ ret' = [n |-> n, isNil |-> r.isNil]
             /\ err' = r.err
    /\ pre' = heap
    /\ op' = "Increment"
    /\ UNCHANGED << startRef, endRef, version, calls, cidrs, made, target,
                    exclude, part, textA, textB, ranges >>

\* ret := start.Equal(end)
CallEqual ==
    /\ op = "none"
    /\ ret' = IPAddress_Equal(heap[startRef], heap[endRef])
    /\ pre' = heap
    /\ op' = "Equal"
    /\ UNCHANGED << heap, startRef, endRef, version, calls, cidrs, err, made,
                    target, exclude, part, textA, textB, ranges >>

Next == CallIPRangeToCIDRS

\* The range converter, called repeatedly on the same address objects.
Spec == InitAddresses /\ [][Next]_vars

NextBoundaries == CallNewNetworkFromBoundaries

\* The boundary reducer.
SpecBoundaries == InitAddresses /\ [][NextBoundaries]_vars

\* target, _ := NewIPNetwork(textA); exclude, _ := NewIPNetwork(textB)
CallNewIPNetwork ==
    /\ op = "none"
    /\ target' = NewIPNetwork(textA.v, textA.a, textA.ones)
    /\ exclude' = NewIPNetwork(textB.v, textB.a, textB.ones)
    /\ op' = "NewIPNetwork"
    /\ UNCHANGED << heap, startRef, endRef, version, pre, calls, cidrs, err,
                    made, part, textA, textB, ranges, ret >>

\* target.LessThan(exclude), exclude.LessThan(target), target.Equal(exclude)
CallIPNetworkCompare ==
    /\ op = "NewIPNetwork"
    /\ ret' = [lessThan |-> IPNetwork_LessThan(target, exclude),
               greaterThan |-> IPNetwork_LessThan(exclude, target),
               equal |-> IPNetwork_Equal(target, exclude)]
    /\ op' = "IPNetworkCompare"
    /\ UNCHANGED << heap, startRef, endRef, version, pre, calls, cidrs, err,
                    made, target, exclude, part, textA, textB, ranges >>

\* target.First(), target.Last(), target.Length()
CallBounds ==
    /\ op = "NewIPNetwork"
    /\ ret' = [first |-> First(target), last |-> Last(target),
               length |-> IPNetwork_Length(target)]
    /\ op' = "Bounds"
    /\ UNCHANGED << heap, startRef, endRef, version, pre, calls, cidrs, err,
                    made, target, exclude, part, textA, textB, ranges >>

\* target.ContainsAddress(NewIP(address of textB)),
\* target.ContainsSubnetwork(exclude)
CallContains ==
    /\ op = "NewIPNetwork"
    /\ ret' = [containsAddress |->
                  ContainsAddress(target, NewIP(textB.v, textB.a)),
               containsSubnetwork |-> ContainsSubnetwork(target, exclude)]
    /\ op' = "Contains"
    /\ UNCHANGED << heap, startRef, endRef, version, pre, calls, cidrs, err,
                    made, target, exclude, part, textA, textB, ranges >>

NextNetwork ==
    CallNewIPNetwork \/ CallIPNetworkCompare \/ CallBounds \/ CallContains

\* Networks made from CIDR texts, compared and measured.
SpecNetwork == InitTexts /\ [][NextNetwork]_vars

\* less := ranges.Less(i, j)
CallLess ==
    /\ op = "none"
    /\ \E i \in 1 .. Len(ranges), j \in 1 .. Len(ranges) :
          ret' = [i |-> i, j |-> j, less |-> ByIPRanges_Less(ranges, i, j)]
    /\ op' = "Less"
    /\ UNCHANGED << heap, startRef, endRef, version, pre, calls, cidrs, err,
                    made, target, exclude, part, textA, textB, ranges >>

NextRanges == CallLess

\* The comparison sort.Sort makes on a ByIPRanges collection.
SpecRanges == InitRanges /\ [][NextRanges]_vars

NextConverters == CallIPRangeToCIDRS \/ CallNewNetworkFromBoundaries

\* The boundary reducer and the range converter on the same arguments.
SpecConverters == InitAddresses /\ [][NextConverters]_vars

NextAddress == CallToIPAddress \/ CallIncrement \/ CallEqual

\* The operations of one address, and of two.
SpecAddress == InitAddresses /\ [][NextAddress]_vars

NextPartition == CallPartition

\* The partition engine.
SpecPartition == InitNetworks /\ [][NextPartition]_vars

\* A caller that holds nothing yet.
InitIdle ==
    /\ heap = [o \in {"o1", "o2"} |-> NewIP(IPv4, 0)]
    /\ startRef = "o1"
    /\ endRef = "o2"
    /\ version = IPv4
    /\ pre = heap
    /\ calls = 0
    /\ op = "none"
    /\ cidrs = << >>
    /\ err = "nil"
    /\ made = << >>
    /\ target = NoNetwork
    /\ exclude = NoNetwork
    /\ part = << >>
    /\ textA = NoText
    /\ textB = NoText
    /\ ranges = << >>
    /\ ret = << >>

\* The byte strings ValidIPV4 is handed: what big.Int.Bytes or a net.IP can
\* hold, from no byte to one byte more than an IPv6 address.
ByteStrings ==
    UNION {[1 .. n -> 0 .. ByteBase - 1] : n \in 0 .. IPv6len + 1}

\* valid := ValidIPV4(ipBytes)
CallValidIPV4 ==
    /\ op = "none"
    /\ \E b \in ByteStrings : ret' = [ipBytes |-> b, valid |-> ValidIPV4(b)]
    /\ op' = "ValidIPV4"
    /\ UNCHANGED << heap, startRef, endRef, version, pre, calls, cidrs, err,
                    made, target, exclude, part, textA, textB, ranges >>

NextValidIPV4 == CallValidIPV4

\* The family test of ToIPAddress, on byte strings of every length.
SpecValidIPV4 == InitIdle /\ [][NextValidIPV4]_vars

\* A caller with one network.
InitNetwork ==
    /\ heap = [o \in {"o1", "o2"} |-> NewIP(IPv4, 0)]
    /\ startRef = "o1"
    /\ endRef = "o2"
    /\ version = IPv4
    /\ pre = heap
    /\ calls = 0
    /\ op = "none"
    /\ cidrs = << >>
    /\ err = "nil"
    /\ made = << >>
    /\ target \in Networks
    /\ exclude = NoNetwork
    /\ part = << >>
    /\ textA = NoText
    /\ textB = NoText
    /\ ranges = << >>
    /\ ret = << >>

\* results, err := target.Subnet(n)
CallSubnet ==
    /\ op = "none"
    /\ \E n \in 0 .. IPv6.bitLength :
          \E r \in {Subnet(target, n)} :
             /\ ret' = [n |-> n, results |-> r.results]
             /\ err' = r.err
    /\ op' = "Subnet"
    /\ UNCHANGED << heap, startRef, endRef, version, pre, calls, cidrs, made,
                    target, exclude, part, textA, textB, ranges >>

NextSubnet == CallSubnet

\* A network split into subnets of a longer prefix.
SpecSubnet == InitNetwork /\ [][NextSubnet]_vars

\* A caller with two networks of one family, made from CIDR texts.
InitMerge ==
    /\ heap = [o \in {"o1", "o2"} |-> NewIP(IPv4, 0)]
    /\ startRef = "o1"
    /\ endRef = "o2"
    /\ version = IPv4
    /\ pre = heap
    /\ calls = 0
    /\ op = "none"
    /\ cidrs = << >>
    /\ err = "nil"
    /\ made = << >>
    /\ \E v \in Versions :
          /\ target \in {NewIPNetwork(v, a, ones) :
                            a \in TextAddrs(v), ones \in 0 .. v.bitLength}
          /\ exclude \in {NewIPNetwork(v, a, ones) :
                             a \in TextAddrs(v), ones \in 0 .. v.bitLength}
    /\ part = << >>
    /\ textA = NoText
    /\ textB = NoText
    /\ ranges = << >>
    /\ ret = << >>

\* merged := MergeCIDRs(cidrs), on a list made of the caller's networks,
\* built from either copy of the function; ret holds the list, the bound of
\* the copy's merging loop, the IPSet and whether the call panicked.
CallMergeCIDRs ==
    /\ op = "none"
    /\ target # NoNetwork
    /\ exclude # NoNetwork
    /\ \E list \in {<< target >>, << target, exclude >>,
                     << target, exclude, target >>},
          lowest \in {0, 1} :
          \E r \in {MergeCIDRs(list, lowest)} :
             ret' = [cidrs |-> list, lowest |-> lowest, merged |-> r.merged,
                     panic |-> r.panic]
    /\ op' = "MergeCIDRs"
    /\ UNCHANGED << heap, startRef, endRef, version, pre, calls, cidrs, err,
                    made, target, exclude, part, textA, textB, ranges >>

NextMerge == CallMergeCIDRs

\* Lists of networks merged into an IPSet.
SpecMerge == InitMerge /\ [][NextMerge]_vars

\* A caller with two address objects, or with two networks.
InitCore == InitAddresses \/ InitNetworks

NextCore ==
    CallIPRangeToCIDRS \/ CallNewNetworkFromBoundaries \/ CallPartition

\* The three algorithms of the core: the boundary reducer, the partition
\* engine and the range converter.
SpecCore == InitCore /\ [][NextCore]_vars

(***************************************************************************)
(* What the calls are said to do.  A network's range is read as a caller   *)
(* reads it, off First() and Last(); the block a network's fields denote   *)
(* runs from start over Length() addresses.                                *)
(***************************************************************************)
FirstOf(nw) == ToInt(First(nw))

LastOf(nw) == ToInt(Last(nw))

RangeOf(nw) == FirstOf(nw) .. LastOf(nw)

BlockLow(nw) == nw.start

BlockHigh(nw) == nw.start + IPNetwork_Length(nw) - 1

\* The values of the arguments when the last call was made.
startValue == ToInt(pre[startRef])

endValue == ToInt(pre[endRef])

SameVersion == pre[startRef].version = pre[endRef].version

\* IPRangeToCIDRS has returned from a call on addresses as NewIP made them,
\* of one version and with start <= end.
RangeCall ==
    /\ op = "IPRangeToCIDRS"
    /\ calls = 1
    /\ SameVersion
    /\ startValue <= endValue

\* Two entries that one aligned block of twice their size would replace,
\* their ranges read off First() and Last().
Mergeable(A, B) ==
    /\ PrefixLength(A) = PrefixLength(B)
    /\ PrefixLength(A) > 0
    /\ FirstOf(B) = LastOf(A) + 1
    /\ FirstOf(A) % (2 * IPNetwork_Length(A)) = 0

\* The same, their ranges read off their fields.
MergeableBlocks(A, B) ==
    /\ PrefixLength(A) = PrefixLength(B)
    /\ PrefixLength(A) > 0
    /\ BlockLow(B) = BlockHigh(A) + 1
    /\ BlockLow(A) % (2 * IPNetwork_Length(A)) = 0

\* C1: for start <= end of one version, the networks IPRangeToCIDRS returns
\* have pairwise disjoint ranges whose union is exactly {start, ..., end}.
C1_ExactCover ==
    RangeCall =>
        /\ err = "nil"
        /\ \A i, j \in 1 .. Len(cidrs) :
              i # j => RangeOf(cidrs[i]) \cap RangeOf(cidrs[j]) = {}
        /\ UNION {RangeOf(cidrs[i]) : i \in 1 .. Len(cidrs)}
              = startValue .. endValue

\* C3: in the list IPRangeToCIDRS returns for start <= end, no two adjacent
\* entries can be merged into one aligned, power-of-two sized block, whether
\* their ranges are read off First() and Last() or off their fields.
C3_Maximal ==
    op = "IPRangeToCIDRS" /\ startValue <= endValue =>
        \A i \in 1 .. Len(cidrs) - 1 :
            /\ ~ Mergeable(cidrs[i], cidrs[i + 1])
            /\ ~ MergeableBlocks(cidrs[i], cidrs[i + 1])

\* A returned list in which two neighbours of equal prefix length touch, and
\* only their alignment keeps them apart.
C3_Witness ==
    /\ RangeCall
    /\ err = "nil"
    /\ \E i \in 1 .. Len(cidrs) - 1 :
          /\ PrefixLength(cidrs[i]) = PrefixLength(cidrs[i + 1])
          /\ FirstOf(cidrs[i + 1]) = LastOf(cidrs[i]) + 1
          /\ BlockLow(cidrs[i + 1]) = BlockHigh(cidrs[i]) + 1

\* C4: the list IPRangeToCIDRS returns is in strictly ascending address
\* order: for consecutive entries A then B, A.Last() < B.First().
C4_Ascending ==
    op = "IPRangeToCIDRS" /\ startValue <= endValue =>
        \A i \in 1 .. Len(cidrs) - 1 :
            LastOf(cidrs[i]) < FirstOf(cidrs[i + 1])

\* A returned list of four blocks or more, trimmed on both sides, that runs
\* from start to end.
C4_Witness ==
    /\ RangeCall
    /\ Len(cidrs) >= 4
    /\ heap[startRef] # pre[startRef]
    /\ heap[endRef] # pre[endRef]
    /\ FirstOf(cidrs[1]) = startValue
    /\ LastOf(cidrs[Len(cidrs)]) = endValue

\* C5: when [start, end] is exactly the range of one block B = start/p (start
\* aligned to p, end = start + 2^(width - p) - 1, from the single host p =
\* width to the whole space p = 0), IPRangeToCIDRS returns the list [B].
C5_ExactBlock ==
    RangeCall =>
        \A p \in 0 .. version.bitLength :
            ( /\ startValue % 2 ^ (version.bitLength - p) = 0
              /\ endValue = startValue + 2 ^ (version.bitLength - p) - 1 )
            => /\ err = "nil"
               /\ cidrs = << [start |-> startValue, version |-> version,
                              Mask |-> CIDRMask(p, version.bitLength)] >>

\* C6: IPRangeToCIDRS does not modify its arguments: after the call the
\* objects passed as start and end hold the bytes and the version they held
\* before it.
C6_ArgumentsUnchanged ==
    op = "IPRangeToCIDRS" /\ calls = 1 =>
        /\ heap[startRef] = pre[startRef]
        /\ heap[endRef] = pre[endRef]

\* Partition has returned.
PartitionCall == op = "Partition"

\* Before, then Partition, then After, as one list.
Flattened == part[1].Before \o part[1].Partition \o part[1].After

\* Neither network lies entirely below the other.
Overlapping ==
    /\ ~ (LastOf(exclude) < FirstOf(target))
    /\ ~ (LastOf(target) < FirstOf(exclude))

Ascending(list) ==
    \A i \in 1 .. Len(list) - 1 : LastOf(list[i]) < FirstOf(list[i + 1])

\* C2: for a target and an exclude fully contained in the target's range,
\* the ranges of Before, then Partition, then After, concatenated in that
\* order, reconstruct the target's range [First, Last] with no gap and no
\* overlap.
C2_Reconstructs ==
    ( /\ PartitionCall
      /\ target.version = exclude.version
      /\ FirstOf(target) <= FirstOf(exclude)
      /\ LastOf(exclude) <= LastOf(target) )
    => /\ Len(Flattened) >= 1
       /\ FirstOf(Flattened[1]) = FirstOf(target)
       /\ LastOf(Flattened[Len(Flattened)]) = LastOf(target)
       /\ \A i \in 1 .. Len(Flattened) - 1 :
             FirstOf(Flattened[i + 1]) = LastOf(Flattened[i]) + 1

BoundariesCall ==
    /\ op = "newNetworkFromBoundaries"
    /\ SameVersion
    /\ startValue <= endValue

\* C10: for first <= last of one version, newNetworkFromBoundaries returns
\* the most specific block containing both: the block contains first and
\* last, its start has the low (width - prefix) bits clear, it is of their
\* version, and under no longer prefix do first and last share a block.
C10_MostSpecific ==
    BoundariesCall =>
        /\ err = "nil"
        /\ Len(made) = 1
        /\ BlockLow(made[1]) <= startValue
        /\ endValue <= BlockHigh(made[1])
        /\ made[1].version = pre[startRef].version
        /\ made[1].start
              % 2 ^ (made[1].version.bitLength - PrefixLength(made[1])) = 0
        /\ \A q \in PrefixLength(made[1]) + 1 .. made[1].version.bitLength :
              startValue \div 2 ^ (made[1].version.bitLength - q)
                 # endValue \div 2 ^ (made[1].version.bitLength - q)

\* A block strictly between a host and the whole space, starting below first
\* and ending above last.
C10_Witness ==
    /\ BoundariesCall
    /\ Len(made) = 1
    /\ PrefixLength(made[1]) > 0
    /\ PrefixLength(made[1]) < made[1].version.bitLength
    /\ BlockLow(made[1]) < startValue
    /\ endValue < BlockHigh(made[1])

\* C11: for every address a, a.ToInt().ToIPAddress() has the same bytes, the
\* same byte length and the same version as a.
C11_RoundTrip ==
    op = "ToIPAddress" =>
        /\ ret[1].IP = pre[startRef].IP
        /\ Len(ret[1].IP) = Len(pre[startRef].IP)
        /\ ret[1].version = pre[startRef].version

\* The value of the receiver of Increment before the call, and the amount.
valueBefore == ToInt(pre[startRef])

\* C12: for every address a and integer n, if 0 <= value(a) + n <= the
\* maximum of a's version, a.Increment(n) returns the address of value
\* value(a) + n and a nil error; otherwise it returns a nil address and
\* ErrorAddressOutOFBounds.
C12_Increment ==
    op = "Increment" =>
        IF 0 <= valueBefore + ret.n
           /\ valueBefore + ret.n <= pre[startRef].version.max
        THEN /\ ~ ret.isNil
             /\ err = "nil"
             /\ ToInt(heap[startRef]) = valueBefore + ret.n
        ELSE /\ ret.isNil
             /\ err = "ErrorAddressOutOFBounds"

\* C13: if start and end are of different versions, newNetworkFromBoundaries
\* and IPRangeToCIDRS return a version-mismatch error and a nil result: no
\* network, no list.
C13_VersionMismatch ==
    pre[startRef].version # pre[endRef].version =>
        /\ op = "newNetworkFromBoundaries"
              => err = "VersionMismatch" /\ made = << >>
        /\ op = "IPRangeToCIDRS"
              => err = "VersionMismatch" /\ cidrs = << >>

\* IPRangeToCIDRS called with an IPv4 start and an IPv6 end of a higher
\* value.
C13_Witness ==
    /\ op = "IPRangeToCIDRS"
    /\ pre[startRef].version = IPv4
    /\ pre[endRef].version = IPv6
    /\ startValue < endValue
    /\ cidrs = << >>
    /\ err = "VersionMismatch"

\* C14: Partition called with a target and an exclude of different versions
\* surfaces the mismatch: it hands back no Partition value, with no Before,
\* Partition or After networks computed from the raw integer values.
C14_MismatchSurfaced ==
    PartitionCall /\ target.version # exclude.version => part = << >>

\* C15: for every IPv4 address a and IPv6 address b, a.Equal(b) is false,
\* also when both have the same integer value.
C15_NoCoercion ==
    op = "Equal" /\ pre[startRef].version # pre[endRef].version
        => ret = FALSE

\* The order the networks are said to be in: by version, IPv4 first, then by
\* start address, then by prefix length, the shorter first.
OrderedBefore(a, b) ==
    \/ a.version = IPv4 /\ b.version = IPv6
    \/ /\ a.version = b.version
       /\ \/ a.start < b.start
          \/ a.start = b.start /\ PrefixLength(a) < PrefixLength(b)

\* C16: IPNetwork.LessThan orders networks by version (IPv4 before IPv6),
\* then by start address, then by mask (shorter prefix first); it is
\* irreflexive and transitive, and for two networks a, b exactly one of
\* a.LessThan(b), b.LessThan(a), a.Equal(b) holds.
C16_StrictTotalOrder ==
    op = "IPNetworkCompare" =>
        /\ ret.lessThan = OrderedBefore(target, exclude)
        /\ ret.greaterThan = OrderedBefore(exclude, target)
        /\ ~ IPNetwork_LessThan(target, target)
        /\ \A c \in TextNetworks :
              ret.lessThan /\ IPNetwork_LessThan(exclude, c)
                 => IPNetwork_LessThan(target, c)
        /\ \/ ret.lessThan /\ ~ ret.greaterThan /\ ~ ret.equal
           \/ ~ ret.lessThan /\ ret.greaterThan /\ ~ ret.equal
           \/ ~ ret.lessThan /\ ~ ret.greaterThan /\ ret.equal

\* Two networks of one version and one start, told apart by the mask alone.
C16_Witness ==
    /\ op = "IPNetworkCompare"
    /\ target.version = exclude.version
    /\ target.start = exclude.start
    /\ target.start > 0
    /\ PrefixLength(target) < PrefixLength(exclude)
    /\ ret.lessThan

\* C17: for every network N made by NewIPNetwork, N.First() is the address
\* of N's version with value start, N.Last() the address of N's version with
\* value start + 2^(width - prefix) - 1, and N.Length() = 2^(width - prefix).
C17_Bounds ==
    op = "Bounds" =>
        /\ ret.first = NewIP(target.version, target.start)
        /\ ret.last =
              NewIP(target.version,
                    target.start + 2 ^ (textA.v.bitLength - textA.ones) - 1)
        /\ ret.length = 2 ^ (textA.v.bitLength - textA.ones)

\* The addresses of two texts of one family agree on the first ones bits.
SamePrefixBits(t, u, ones) ==
    t.a \div 2 ^ (t.v.bitLength - ones) = u.a \div 2 ^ (u.v.bitLength - ones)

\* C18: NewIPNetwork clears the host bits of the address, so two CIDR texts
\* of one prefix length whose addresses agree on the first prefix-length
\* bits give Equal networks, and networks that differ in version, prefix
\* length or masked start address are never Equal.
C18_EqualNetworks ==
    op = "IPNetworkCompare" =>
        /\ target.start % 2 ^ (textA.v.bitLength - textA.ones) = 0
        /\ exclude.start % 2 ^ (textB.v.bitLength - textB.ones) = 0
        /\ ret.equal = ( /\ textA.v = textB.v
                         /\ textA.ones = textB.ones
                         /\ SamePrefixBits(textA, textB, textA.ones) )

\* Two texts with different addresses, one of them with host bits set, that
\* give Equal networks.
C18_Witness ==
    /\ op = "IPNetworkCompare"
    /\ textA.a # textB.a
    /\ textA.a % 2 ^ (textA.v.bitLength - textA.ones) # 0
    /\ textA.ones > 0
    /\ ret.equal

\* C19: N.ContainsAddress(a) is true exactly when N.First() <= a <= N.Last(),
\* N.ContainsSubnetwork(M) exactly when N.First() <= M.First() and M.Last()
\* <= N.Last(); every network contains its first address, its last address
\* and itself.
C19_Containment ==
    op = "Contains" =>
        /\ ret.containsAddress =
              ( /\ FirstOf(target) <= ToInt(NewIP(textB.v, textB.a))
                /\ ToInt(NewIP(textB.v, textB.a)) <= LastOf(target) )
        /\ ret.containsSubnetwork =
              ( /\ FirstOf(target) <= FirstOf(exclude)
                /\ LastOf(exclude) <= LastOf(target) )
        /\ ContainsAddress(target, First(target))
        /\ ContainsAddress(target, Last(target))
        /\ ContainsSubnetwork(target, target)

\* The order the ranges are said to be in: by version, IPv4 first, then by
\* first address, then by last address, then by network.
RangeBefore(r, q) ==
    \/ r.version = IPv4 /\ q.version = IPv6
    \/ /\ r.version = q.version
       /\ \/ ToInt(r.first) < ToInt(q.first)
          \/ /\ ToInt(r.first) = ToInt(q.first)
             /\ \/ ToInt(r.last) < ToInt(q.last)
                \/ /\ ToInt(r.last) = ToInt(q.last)
                   /\ OrderedBefore(r.network, q.network)

\* C20: ByIPRanges.Less orders ranges by version (IPv4 before IPv6), then
\* first address, then last address, then network; Less(i, i) is false, and
\* Less(i, j) and Less(j, i) are never both true.
C20_Less ==
    op = "Less" =>
        /\ ret.less = RangeBefore(ranges[ret.i], ranges[ret.j])
        /\ ret.i = ret.j => ~ ret.less
        /\ ~ (ret.less /\ ByIPRanges_Less(ranges, ret.j, ret.i))

\* Two ranges of one version and one first address, the last address of the
\* first one lower although its network sorts later.
C20_Witness ==
    /\ op = "Less"
    /\ ret.i # ret.j
    /\ ranges[ret.i].version = ranges[ret.j].version
    /\ ToInt(ranges[ret.i].first) = ToInt(ranges[ret.j].first)
    /\ ToInt(ranges[ret.i].last) < ToInt(ranges[ret.j].last)
    /\ IPNetwork_LessThan(ranges[ret.j].network, ranges[ret.i].network)
    /\ ret.less

\* C21: calling IPRangeToCIDRS again with the same start and end objects
\* returns the same list, and the same error, as the call before it, and so
\* as the first call.
C21_Deterministic ==
    [][op = "IPRangeToCIDRS" /\ op' = "IPRangeToCIDRS"
          => cidrs' = cidrs /\ err' = err]_vars

\* C22: every address object keeps a byte length that matches its version
\* tag (IPv4len bytes for IPv4, IPv6len for IPv6): the objects a caller holds
\* after an Increment that succeeded, and the object ToIPAddress returns;
\* and Version() of an object is what it was before the call.
C22_LengthMatchesVersion ==
    /\ op = "Increment" /\ err = "nil" =>
          \A o \in DOMAIN heap :
              /\ Len(heap[o].IP) = heap[o].version.length
              /\ Version(heap[o]) = Version(pre[o])
    /\ op = "ToIPAddress" => Len(ret[1].IP) = ret[1].version.length

\* A network whose fields make a CIDR block of its version: the low
\* (width - prefix) bits of start are zero, and the last address, read off
\* the fields and off Last(), is not above the version's maximum.
ValidBlock(nw) ==
    /\ nw.version \in Versions
    /\ nw.start >= 0
    /\ nw.start % 2 ^ (nw.version.bitLength - PrefixLength(nw)) = 0
    /\ BlockHigh(nw) <= nw.version.max
    /\ LastOf(nw) <= nw.version.max

\* C23: every network the core produces is a valid CIDR block: each network
\* of Before and After that Partition returns for a target and an exclude of
\* one family, the network newNetworkFromBoundaries returns and each network
\* of the list IPRangeToCIDRS returns for addresses of one family.
C23_ValidBlocks ==
    /\ PartitionCall /\ target.version = exclude.version =>
          /\ \A i \in 1 .. Len(part[1].Before) : ValidBlock(part[1].Before[i])
          /\ \A i \in 1 .. Len(part[1].After) : ValidBlock(part[1].After[i])
    /\ op = "newNetworkFromBoundaries" /\ SameVersion =>
          \A i \in 1 .. Len(made) : ValidBlock(made[i])
    /\ op = "IPRangeToCIDRS" /\ calls = 1 /\ SameVersion =>
          \A i \in 1 .. Len(cidrs) : ValidBlock(cidrs[i])

\* A list of three blocks or more that IPRangeToCIDRS cut out of a block of
\* newNetworkFromBoundaries with Partition, one of them neither a host nor
\* the whole space and not at address 0.
C23_Witness ==
    /\ op = "IPRangeToCIDRS"
    /\ calls = 1
    /\ SameVersion
    /\ startValue < endValue
    /\ Len(cidrs) >= 3
    /\ \E i \in 1 .. Len(cidrs) :
          /\ PrefixLength(cidrs[i]) > 0
          /\ PrefixLength(cidrs[i]) < cidrs[i].version.bitLength
          /\ cidrs[i].start > 0

\* The general case of Partition: an exclude that overlaps a target of its
\* family and has a strictly longer prefix.
GeneralCase ==
    /\ PartitionCall
    /\ target.version = exclude.version
    /\ Overlapping
    /\ PrefixLength(target) < PrefixLength(exclude)

\* Before followed by After: the sibling blocks of a partition.
Siblings == part[1].Before \o part[1].After

\* Block nw is the half, at its own prefix length p, that does not hold
\* exclude, of the block of prefix length p - 1 that holds exclude.
OtherHalf(nw) ==
    LET p == PrefixLength(nw)
        w == exclude.version.bitLength
    IN /\ nw.start \div 2 ^ (w - p + 1) = exclude.start \div 2 ^ (w - p + 1)
       /\ nw.start \div 2 ^ (w - p) # exclude.start \div 2 ^ (w - p)

\* C24: in the general case Partition emits exactly one sibling block for
\* each prefix length p with target.PrefixLength() < p <=
\* exclude.PrefixLength(), the half at prefix p that does not contain
\* exclude; so len(Before) + len(After) is the difference of the two prefix
\* lengths, and the prefix lengths strictly increase along Before and
\* strictly decrease along After.
C24_OneSiblingPerPrefix ==
    GeneralCase =>
        /\ Len(part[1].Before) + Len(part[1].After)
              = PrefixLength(exclude) - PrefixLength(target)
        /\ \A q \in PrefixLength(target) + 1 .. PrefixLength(exclude) :
              Cardinality({i \in 1 .. Len(Siblings) :
                              PrefixLength(Siblings[i]) = q}) = 1
        /\ \A i \in 1 .. Len(Siblings) : OtherHalf(Siblings[i])
        /\ \A i \in 1 .. Len(part[1].Before) - 1 :
              PrefixLength(part[1].Before[i])
                 < PrefixLength(part[1].Before[i + 1])
        /\ \A i \in 1 .. Len(part[1].After) - 1 :
              PrefixLength(part[1].After[i])
                 > PrefixLength(part[1].After[i + 1])

\* The passes the widening loop of newNetworkFromBoundaries made: prefixlen
\* starts at the width and every pass lowers it by one (lines 58 and 61),
\* and the mask handed back is built from what is left of it (line 66).
WideningPasses == pre[startRef].version.bitLength - PrefixLength(made[1])

\* The passes the bisection loop of Partition made: every pass appends one
\* network, to left or to right (lines 209-219).
BisectionPasses == Len(part[1].Before) + Len(part[1].After)

\* C25: every algorithm ends within a bit-width bound: the widening loop of
\* newNetworkFromBoundaries makes at most bitLength passes and leaves a mask
\* of the family's width, the bisection loop of Partition makes exactly
\* exclude.PrefixLength() - target.PrefixLength() passes in the general case,
\* at most bitLength, and IPRangeToCIDRS always returns, a list or an error.
C25_Bounded ==
    /\ op = "newNetworkFromBoundaries" /\ err = "nil" =>
          /\ MaskSize(made[1].Mask).bits = pre[startRef].version.bitLength
          /\ WideningPasses >= 0
          /\ WideningPasses <= pre[startRef].version.bitLength
    /\ GeneralCase =>
          /\ BisectionPasses = PrefixLength(exclude) - PrefixLength(target)
          /\ BisectionPasses <= target.version.bitLength
    /\ op = "IPRangeToCIDRS" => err \in {"nil", "VersionMismatch"}

\* The longest run of the bisection loop: an IPv6 host cut out of the whole
\* IPv6 space, one pass for every bit.
C25_Witness ==
    /\ GeneralCase
    /\ target.version = IPv6
    /\ PrefixLength(target) = 0
    /\ PrefixLength(exclude) = IPv6.bitLength
    /\ BisectionPasses = IPv6.bitLength

\* C26: if end is the maximum address of the version and start <= end,
\* IPRangeToCIDRS returns a nil error and a list whose last block ends at
\* the maximum address; the call does not end in the dereference of the nil
\* address a failed Increment returns.
C26_EndAtMaximum ==
    RangeCall /\ endValue = version.max =>
        /\ err = "nil"
        /\ Len(cidrs) >= 1
        /\ BlockHigh(cidrs[Len(cidrs)]) = version.max

\* IPRangeToCIDRS has returned from a first call with start above end, both
\* of one version.
ReversedCall ==
    /\ op = "IPRangeToCIDRS"
    /\ calls = 1
    /\ SameVersion
    /\ startValue > endValue

\* C27: called with start > end of one version, IPRangeToCIDRS reports no
\* error: it returns a nil error and the one-element list [end/width], the
\* single-host block of end.
C27_ReversedRange ==
    ReversedCall =>
        /\ err = "nil"
        /\ cidrs = << [start |-> endValue,
                       version |-> pre[endRef].version,
                       Mask |-> CIDRMask(pre[endRef].version.bitLength,
                                         pre[endRef].version.bitLength)] >>

\* A reversed IPv6 range with addresses between its ends, end not at
\* address 0.
C27_Witness ==
    /\ ReversedCall
    /\ pre[endRef].version = IPv6
    /\ endValue > 0
    /\ startValue > endValue + 1
    /\ Len(cidrs) = 1
    /\ err = "nil"

\* C28: ValidIPV4 returns true for a byte string of length IPv4len or 0,
\* false for one of any length other than 0, IPv4len and IPv6len, and for
\* one of length IPv6len true exactly when the bytes above the last IPv4len
\* are all zero.
C28_ValidIPV4 ==
    op = "ValidIPV4" =>
        ret.valid =
            IF Len(ret.ipBytes) = IPv4len \/ Len(ret.ipBytes) = 0 THEN TRUE
            ELSE IF Len(ret.ipBytes) # IPv6len THEN FALSE
            ELSE \A i \in 1 .. IPv6len - IPv4len : ret.ipBytes[i] = 0

\* C29: for a network N of prefix p and every n with p <= n <= width,
\* N.Subnet(n) returns a nil error and exactly 2^(n - p) networks, each of
\* N's version and of prefix n, in ascending address order and pairwise
\* disjoint, whose union is exactly N's range: the first starts where N
\* starts, each next one right after the one before it, and the last ends
\* where N ends; for n < p it returns an empty list and a nil error.
C29_Subnet ==
    op = "Subnet" =>
        LET p == PrefixLength(target)
            n == ret.n
            subnets == ret.results
        IN /\ p <= n /\ n <= target.version.bitLength =>
                 /\ err = "nil"
                 /\ Len(subnets) = 2 ^ (n - p)
                 /\ \A i \in 1 .. Len(subnets) :
                       /\ subnets[i].version = target.version
                       /\ PrefixLength(subnets[i]) = n
                 /\ BlockLow(subnets[1]) = BlockLow(target)
                 /\ \A i \in 1 .. Len(subnets) - 1 :
                       BlockLow(subnets[i + 1]) = BlockHigh(subnets[i]) + 1
                 /\ BlockHigh(subnets[Len(subnets)]) = BlockHigh(target)
           /\ n < p => subnets = << >> /\ err = "nil"

\* The addresses a list of networks covers, each network read off its
\* fields.
Covered(list) ==
    UNION {BlockLow(list[i]) .. BlockHigh(list[i]) : i \in 1 .. Len(list)}

\* C30: for every non-empty list of networks of one version, disjoint,
\* nested or duplicated, MergeCIDRs returns without an index out of range,
\* and the returned IPSet is of that version and covers exactly the union of
\* the ranges of the networks of the list.
C30_MergeCovers ==
    ( /\ op = "MergeCIDRs"
      /\ \A i \in 1 .. Len(ret.cidrs) : ret.cidrs[i].version = target.version )
    => /\ ~ ret.panic
       /\ \A i \in 1 .. Len(ret.merged) :
             ret.merged[i].version = target.version
       /\ Covered(ret.merged) = Covered(ret.cidrs)

====
